---- MODULE Spec2Model ----
(***************************************************************************)
(* Model of python/bindings/PyCUDA.cpp: the capsule-based registry of CUDA *)
(* memory (cudaMalloc / cudaAllocMapped / RegisterMemory /                 *)
(* RegisterMappedMemory and the capsule destructors) and the cudaFont      *)
(* Python type (New / Init / Dealloc / Overlay).                           *)
(*                                                                         *)
(* The CUDA runtime, the Python runtime and cudaFont are the environment:  *)
(* every outcome they can hand back to this file is an input of the        *)
(* action that calls them.                                                 *)
(***************************************************************************)
EXTENDS Integers, Sequences, FiniteSets, TLC

\* ---------------------------------------------------------------- bounds
MaxAddr == 2        \* addresses are 1..MaxAddr, 0 is the null pointer
MaxHandles == 2     \* capsules the Python heap can hold
MaxReleases == 2    \* destructor invocations observed per capsule
MaxSize == 1        \* requested sizes are -MaxSize..MaxSize
MaxDim == 1         \* image widths and heights are -1..MaxDim
MaxAtlas == 2       \* cudaFont objects cudaFont::Create can make

NULL == 0
Addr == 1..MaxAddr
Ptr == 0..MaxAddr
Sizes == (0 - MaxSize)..MaxSize

\* capsule names and destructors
CUDA_MALLOC_MEMORY_CAPSULE == "CUDA_MALLOC_MEMORY_CAPSULE"
CUDA_MAPPED_MEMORY_CAPSULE == "CUDA_MAPPED_MEMORY_CAPSULE"
NoDestructor == "NULL"
FreeMallocDtor == "PyCUDA_FreeMalloc"
FreeMappedDtor == "PyCUDA_FreeMapped"

\* error messages set with PyErr_SetString (all of type PyExc_Exception)
ErrNone == ""
ErrMallocParse == "cudaMalloc() failed to parse size argument"
ErrMallocSize == "cudaMalloc() requested size is negative or zero"
ErrMallocFailed == "cudaMalloc() failed"
ErrRegNull == "RegisterMemory() was provided NULL memory pointers"
ErrRegCapsule == "RegisterMemory() failed to create PyCapsule container"
ErrMappedParse == "cudaAllocMapped() failed to parse size argument"
ErrMappedSize == "cudaAllocMapped() requested size is negative or zero"
ErrMappedFailed == "cudaAllocMapped() failed"
ErrRegMappedNull == "RegisterMappedMemory() was provided NULL memory pointers"
ErrRegMappedMismatch == "RegisterMappedMemory() pointers don't match"
ErrRegMappedCapsule == "RegisterMappedMemory() failed to create PyCapsule container"

ErrFontAlloc == "cudaFont tp_alloc() failed to allocate a new object"
ErrFontColor == "Py_BuildValue() failed"
ErrFontInitParse == "pyFont.__init()__ failed to parse args tuple"
ErrFontCreate == "failed to create cudaFont object"
ErrOverlayInstance == "cudaFont invalid object instance"
ErrOverlayParse == "cudaFont.Overlay() failed to parse args tuple"
ErrOverlayColorTuple == "cudaFont.Overlay() color argument isn't a valid tuple"
ErrOverlayColorParse == "cudaFont.Overlay() failed to parse color tuple"
ErrOverlayDims == "cudaFont.Overlay() image dimensions are invalid"
ErrOverlayInput == "cudaFont.Overlay() failed to get input image pointer from PyCapsule container"
ErrOverlayOutput == "cudaFont.Overlay() failed to get output image pointer from PyCapsule container"

VARIABLES
    handles,    \* the capsules created so far: <<[ptr, gpu, name, destructor, owns]>>;
                \* gpu and owns record the gpuPtr and freeOnDelete of the registration
    relCount,   \* per capsule: how often its release (destructor slot) was invoked
    freeCount,  \* per capsule: how often its destructor called a free primitive
    devMem,     \* addresses outstanding from cudaMalloc
    hostMem,    \* addresses outstanding from cudaAllocMapped
    last,       \* the most recent call and what it returned
    selfObj,    \* the PyFont_Object: "none" (not allocated), "live", "freed"
    font,       \* self->font: NULL or the cudaFont created for it
    atlases,    \* the cudaFont objects created and not deleted
    nCreated    \* how many cudaFont objects cudaFont::Create has made

registryVars == <<handles, relCount, freeCount, devMem, hostMem>>
fontVars == <<selfObj, font, atlases, nCreated>>
vars == <<handles, relCount, freeCount, devMem, hostMem, last, selfObj, font, atlases,
          nCreated>>

NoCall == [op |-> "none"]
NoCapsule == [ptr |-> NULL, gpu |-> NULL, name |-> "", destructor |-> NoDestructor]

Init ==
    /\ handles = <<>>
    /\ relCount = <<>>
    /\ freeCount = <<>>
    /\ devMem = {}
    /\ hostMem = {}
    /\ last = NoCall
    /\ selfObj = "none"
    /\ font = NULL
    /\ atlases = {}
    /\ nCreated = 0

\* ------------------------------------------------------------ environment
\* cudaError_t values returned by the CUDA runtime: cudaSuccess is 0.
CudaSuccess == {0}
CudaErrors == {2}
CudaResults == CudaSuccess \cup CudaErrors

\* CUDA_FAILED(x): x != cudaSuccess
CUDA_FAILED(rc) == rc \notin CudaSuccess

\* addresses neither allocator has outstanding
FreeAddrs == Addr \ (devMem \cup hostMem)

\* cudaFree / cudaFreeHost: a successful free ends the allocation
AfterFree(mem, addrs, rc) == IF CUDA_FAILED(rc) THEN mem ELSE mem \ addrs

\* PyCapsule_New returns NULL when the Python heap cannot hold another capsule
CapsuleOutcomes == IF Len(handles) < MaxHandles THEN BOOLEAN ELSE {FALSE}

\* PyCapsule_GetPointer: the capsule's pointer, NULL when the name does not match
PyCapsule_GetPointer(capsule, name) ==
    IF capsule.name = name THEN capsule.ptr ELSE NULL

\* the default of the freeOnDelete parameter (declared in PyCUDA.h)
DefaultFreeOnDelete == TRUE

\* --------------------------------------------------------------- registry
\* mutant: the destructor is attached whatever freeOnDelete says
MallocDestructor_Always(freeOnDelete) == FreeMallocDtor

\* PyCapsule_New(gpuPtr, CUDA_MALLOC_MEMORY_CAPSULE, freeOnDelete ? PyCUDA_FreeMalloc : NULL)
MallocDestructor(freeOnDelete) ==
    IF freeOnDelete THEN FreeMallocDtor ELSE NoDestructor

\* PyCapsule_New(cpuPtr, CUDA_MAPPED_MEMORY_CAPSULE, freeOnDelete ? PyCUDA_FreeMapped : NULL)
MappedDestructor(freeOnDelete) ==
    IF freeOnDelete THEN FreeMappedDtor ELSE NoDestructor

\* mutant: the cleanup branches free whatever freeOnDelete says
CleanupFrees_Always(prim, ptr, freeOnDelete) == {<<prim, ptr>>}

\* if( freeOnDelete ) CUDA(cudaFree(gpuPtr)) / CUDA(cudaFreeHost(cpuPtr))
CleanupFrees(prim, ptr, freeOnDelete) ==
    IF freeOnDelete THEN {<<prim, ptr>>} ELSE {}

Failed(err, freed) == [capsule |-> NoCapsule, err |-> err, freed |-> freed]
Created(capsule) == [capsule |-> capsule, err |-> ErrNone, freed |-> {}]

\* PyCUDA_RegisterMemory: the capsule returned (NoCapsule for NULL), the error
\* set, and the frees of its cleanup branch; capsuleOk is what PyCapsule_New did
PyCUDA_RegisterMemory(gpuPtr, freeOnDelete, capsuleOk) ==
    IF gpuPtr = NULL
    THEN Failed(ErrRegNull, {})
    ELSE IF ~capsuleOk
    THEN Failed(ErrRegCapsule, CleanupFrees("cudaFree", gpuPtr, freeOnDelete))
    ELSE Created([ptr |-> gpuPtr, gpu |-> gpuPtr, name |-> CUDA_MALLOC_MEMORY_CAPSULE,
                  destructor |-> MallocDestructor(freeOnDelete)])

\* mutant: the comparison of the two pointers is left out
PointersMismatch_Unchecked(cpuPtr, gpuPtr) == FALSE

\* if( cpuPtr != gpuPtr )
PointersMismatch(cpuPtr, gpuPtr) == cpuPtr # gpuPtr

\* PyCUDA_RegisterMappedMemory
PyCUDA_RegisterMappedMemory(cpuPtr, gpuPtr, freeOnDelete, capsuleOk) ==
    IF cpuPtr = NULL \/ gpuPtr = NULL
    THEN Failed(ErrRegMappedNull, {})
    ELSE IF PointersMismatch(cpuPtr, gpuPtr)
    THEN Failed(ErrRegMappedMismatch, CleanupFrees("cudaFreeHost", cpuPtr, freeOnDelete))
    ELSE IF ~capsuleOk
    THEN Failed(ErrRegMappedCapsule, CleanupFrees("cudaFreeHost", cpuPtr, freeOnDelete))
    ELSE Created([ptr |-> cpuPtr, gpu |-> gpuPtr, name |-> CUDA_MAPPED_MEMORY_CAPSULE,
                  destructor |-> MappedDestructor(freeOnDelete)])

\* the outcomes of PyCapsule_New a registration can meet: it is called only
\* once the pointer checks have passed
RegisterMemoryOutcomes(gpuPtr) ==
    IF gpuPtr = NULL THEN {FALSE} ELSE CapsuleOutcomes

RegisterMappedOutcomes(cpuPtr, gpuPtr) ==
    IF cpuPtr = NULL \/ gpuPtr = NULL \/ PointersMismatch(cpuPtr, gpuPtr)
    THEN {FALSE} ELSE CapsuleOutcomes

\* addresses a call passed to one free primitive
FreedBy(freed, prim) == {f[2] : f \in {g \in freed : g[1] = prim}}

\* the results of the frees a call made (none made: nothing to fail)
FreeOutcomes(freed) == IF freed = {} THEN CudaSuccess ELSE CudaResults

\* what a call leaves behind: the new capsule (if any), the memory after its
\* cleanup frees (each may fail), and the record of the call
Commit(call, r, dev, host) ==
    /\ IF r.capsule = NoCapsule
       THEN UNCHANGED <<handles, relCount, freeCount>>
       ELSE /\ handles' = Append(handles, [ptr |-> r.capsule.ptr, gpu |-> r.capsule.gpu,
                                           name |-> r.capsule.name,
                                           destructor |-> r.capsule.destructor,
                                           owns |-> call.owns])
            /\ relCount' = Append(relCount, 0)
            /\ freeCount' = Append(freeCount, 0)
    /\ \E freeRc \in FreeOutcomes(r.freed) :
          /\ devMem' = AfterFree(dev, FreedBy(r.freed, "cudaFree"), freeRc)
          /\ hostMem' = AfterFree(host, FreedBy(r.freed, "cudaFreeHost"), freeRc)
    /\ last' = [call EXCEPT !.ret = IF r.capsule = NoCapsule THEN 0 ELSE Len(handles) + 1,
                            !.err = r.err, !.freed = r.freed]
    /\ UNCHANGED fontVars

\* a call record: the operation, its arguments, what the allocation primitive
\* did (called, ok, the allocation it made, the pointers it wrote), and -
\* filled in by Commit - the handle returned (0: NULL), the error, the frees
Call(op, parsed, size, owns, called, primOk, alloc, cpu, gpu) ==
    [op |-> op, parsed |-> parsed, size |-> size, owns |-> owns, called |-> called,
     primOk |-> primOk, alloc |-> alloc, cpu |-> cpu, gpu |-> gpu,
     ret |-> 0, err |-> ErrNone, freed |-> {}]

\* a call that returned before it reached the allocation primitive
Rejected(op, parsed, size, err) ==
    Commit(Call(op, parsed, size, FALSE, FALSE, FALSE, NULL, NULL, NULL),
           Failed(err, {}), devMem, hostMem)

\* mutant: a size of zero passes the check
SizeInvalid_ZeroAllowed(size) == size < 0

\* if( size <= 0 )
SizeInvalid(size) == size <= 0

\* if( !cudaMalloc(&gpuPtr, size) ): C's ! of the cudaError_t returned
MallocFailedTest(rc) == rc = 0

\* cudaMalloc: success writes a fresh address, failure leaves gpuPtr NULL
MallocOutcomes ==
    {<<rc, a>> \in CudaResults \X Ptr :
        IF CUDA_FAILED(rc) THEN a = NULL ELSE a \in FreeAddrs}

\* cudaAllocMapped: on success one fresh allocation; the pointers written are
\* that address or NULL (cpu), any address or NULL (gpu)
MappedOutcomes ==
    {<<FALSE, NULL, NULL, NULL>>} \cup
    {<<TRUE, t[1], t[2], t[3]>> : t \in
        {u \in FreeAddrs \X Ptr \X Ptr : u[2] \in {NULL, u[1]}}}

\* PyCUDA_Malloc.  parseOk: PyArg_ParseTuple(args, "i", &size) succeeded.
PyCUDA_Malloc(parseOk, size) ==
    IF ~parseOk
    THEN Rejected("PyCUDA_Malloc", FALSE, size, ErrMallocParse)
    ELSE IF SizeInvalid(size)
    THEN Rejected("PyCUDA_Malloc", TRUE, size, ErrMallocSize)
    ELSE \E m \in MallocOutcomes :
           LET rc == m[1]
               gpuPtr == m[2]
               dev == devMem \cup (IF gpuPtr = NULL THEN {} ELSE {gpuPtr})
               call == Call("PyCUDA_Malloc", TRUE, size, DefaultFreeOnDelete, TRUE,
                            ~CUDA_FAILED(rc), gpuPtr, NULL, gpuPtr)
           IN IF MallocFailedTest(rc)
              THEN Commit(call, Failed(ErrMallocFailed, {}), dev, hostMem)
              ELSE \E capsuleOk \in RegisterMemoryOutcomes(gpuPtr) :
                     Commit(call,
                            PyCUDA_RegisterMemory(gpuPtr, DefaultFreeOnDelete, capsuleOk),
                            dev, hostMem)

\* PyCUDA_AllocMapped
PyCUDA_AllocMapped(parseOk, size) ==
    IF ~parseOk
    THEN Rejected("PyCUDA_AllocMapped", FALSE, size, ErrMappedParse)
    ELSE IF SizeInvalid(size)
    THEN Rejected("PyCUDA_AllocMapped", TRUE, size, ErrMappedSize)
    ELSE \E m \in MappedOutcomes :
           LET ok == m[1]
               alloc == m[2]
               cpuPtr == m[3]
               gpuPtr == m[4]
               host == hostMem \cup (IF alloc = NULL THEN {} ELSE {alloc})
               call == Call("PyCUDA_AllocMapped", TRUE, size, DefaultFreeOnDelete, TRUE,
                            ok, alloc, cpuPtr, gpuPtr)
           IN IF ~ok
              THEN Commit(call, Failed(ErrMappedFailed, {}), devMem, host)
              ELSE \E capsuleOk \in RegisterMappedOutcomes(cpuPtr, gpuPtr) :
                     Commit(call,
                            PyCUDA_RegisterMappedMemory(cpuPtr, gpuPtr, DefaultFreeOnDelete,
                                                        capsuleOk),
                            devMem, host)

\* Wrap of a device pointer: PyCUDA_RegisterMemory called by another binding
WrapMemory(gpuPtr, freeOnDelete) ==
    \E capsuleOk \in RegisterMemoryOutcomes(gpuPtr) :
        Commit(Call("PyCUDA_RegisterMemory", TRUE, 0, freeOnDelete, FALSE, FALSE, NULL,
                    NULL, gpuPtr),
               PyCUDA_RegisterMemory(gpuPtr, freeOnDelete, capsuleOk),
               devMem, hostMem)

\* Wrap of a mapped pointer pair: PyCUDA_RegisterMappedMemory called by another binding
WrapMappedMemory(cpuPtr, gpuPtr, freeOnDelete) ==
    \E capsuleOk \in RegisterMappedOutcomes(cpuPtr, gpuPtr) :
        Commit(Call("PyCUDA_RegisterMappedMemory", TRUE, 0, freeOnDelete, FALSE, FALSE,
                    NULL, cpuPtr, gpuPtr),
               PyCUDA_RegisterMappedMemory(cpuPtr, gpuPtr, freeOnDelete, capsuleOk),
               devMem, hostMem)

\* ---------------------------------------------------------------- release
\* a capsule's release: the runtime invokes the destructor the capsule was
\* created with, if any.  The record of the call: the capsule, whether a free
\* primitive was called, on which address, what it returned, and the error
\* propagated (none: the destructors return void).
Released(h, prim, ptr, rc) ==
    [op |-> "Release", h |-> h, prim |-> prim, ptr |-> ptr, rc |-> rc, err |-> ErrNone]

\* PyCUDA_FreeMalloc(capsule): cudaFree of the capsule's pointer; a failure of
\* cudaFree is printed and the function returns
PyCUDA_FreeMalloc(h, freeRc) ==
    /\ h \in 1..Len(handles)
    /\ handles[h].destructor = FreeMallocDtor
    /\ relCount[h] < MaxReleases
    /\ LET ptr == PyCapsule_GetPointer(handles[h], CUDA_MALLOC_MEMORY_CAPSULE)
       IN IF ptr = NULL
          THEN /\ last' = Released(h, "none", NULL, 0)
               /\ UNCHANGED <<freeCount, devMem>>
          ELSE /\ devMem' = AfterFree(devMem, {ptr}, freeRc)
               /\ freeCount' = [freeCount EXCEPT ![h] = @ + 1]
               /\ last' = Released(h, "cudaFree", ptr, freeRc)
    /\ relCount' = [relCount EXCEPT ![h] = @ + 1]
    /\ UNCHANGED <<handles, hostMem>>
    /\ UNCHANGED fontVars

\* PyCUDA_FreeMapped(capsule): cudaFreeHost of the capsule's pointer
PyCUDA_FreeMapped(h, freeRc) ==
    /\ h \in 1..Len(handles)
    /\ handles[h].destructor = FreeMappedDtor
    /\ relCount[h] < MaxReleases
    /\ LET ptr == PyCapsule_GetPointer(handles[h], CUDA_MAPPED_MEMORY_CAPSULE)
       IN IF ptr = NULL
          THEN /\ last' = Released(h, "none", NULL, 0)
               /\ UNCHANGED <<freeCount, hostMem>>
          ELSE /\ hostMem' = AfterFree(hostMem, {ptr}, freeRc)
               /\ freeCount' = [freeCount EXCEPT ![h] = @ + 1]
               /\ last' = Released(h, "cudaFreeHost", ptr, freeRc)
    /\ relCount' = [relCount EXCEPT ![h] = @ + 1]
    /\ UNCHANGED <<handles, devMem>>
    /\ UNCHANGED fontVars

\* release of a capsule created with a NULL destructor: nothing of this file runs
ReleaseNoDestructor(h) ==
    /\ h \in 1..Len(handles)
    /\ handles[h].destructor = NoDestructor
    /\ relCount[h] < MaxReleases
    /\ relCount' = [relCount EXCEPT ![h] = @ + 1]
    /\ last' = Released(h, "none", NULL, 0)
    /\ UNCHANGED <<handles, freeCount, devMem, hostMem>>
    /\ UNCHANGED fontVars

\* ------------------------------------------------------------------- next
\* the int parsed from the argument tuple; size keeps its initial 0 when the
\* parse fails
ParsedSizes == {<<TRUE, n>> : n \in Sizes} \cup {<<FALSE, 0>>}

Next ==
    \/ \E ps \in ParsedSizes : PyCUDA_Malloc(ps[1], ps[2])
    \/ \E ps \in ParsedSizes : PyCUDA_AllocMapped(ps[1], ps[2])
    \/ \E gpuPtr \in Ptr, freeOnDelete \in BOOLEAN : WrapMemory(gpuPtr, freeOnDelete)
    \/ \E cpuPtr \in Ptr, gpuPtr \in Ptr, freeOnDelete \in BOOLEAN :
          WrapMappedMemory(cpuPtr, gpuPtr, freeOnDelete)
    \/ \E h \in 1..Len(handles), freeRc \in CudaResults : PyCUDA_FreeMalloc(h, freeRc)
    \/ \E h \in 1..Len(handles), freeRc \in CudaResults : PyCUDA_FreeMapped(h, freeRc)
    \/ \E h \in 1..Len(handles) : ReleaseNoDestructor(h)

Spec == Init /\ [][Next]_vars

\* ------------------------------------------------------------------- font
\* Python objects handed to Overlay: a capsule (its index in handles), an
\* object that is no capsule (0), or - for the optional output - not given
NotCapsule == 0
NotGiven == 0 - 1
Dims == (0 - 1)..MaxDim
\* the text drawn and the pen origin <<x, y>>: the empty string at the top left
\* corner, and a glyph at a point no image of these sizes contains
Requests == {[text |-> "", pen |-> <<0, 0>>],
             [text |-> "A", pen |-> <<MaxDim, MaxDim>>]}
\* the color argument: not given, a tuple of 3 floats, a tuple of 2, a list
Colors == {"none", "tuple3", "tuple2", "list"}

\* PyTuple_Check(color)
PyTuple_Check(color) == color \in {"tuple2", "tuple3"}

\* PyArg_ParseTuple(color, "fff|f", ...)
ColorParses(color) == color = "tuple3"

\* PyCUDA_GetPointer: the pointer of a capsule of either name, NULL for
\* anything else
PyCUDA_GetPointer(obj) ==
    IF obj \notin 1..Len(handles) THEN NULL
    ELSE IF handles[obj].name = CUDA_MAPPED_MEMORY_CAPSULE
    THEN PyCapsule_GetPointer(handles[obj], CUDA_MAPPED_MEMORY_CAPSULE)
    ELSE IF handles[obj].name = CUDA_MALLOC_MEMORY_CAPSULE
    THEN PyCapsule_GetPointer(handles[obj], CUDA_MALLOC_MEMORY_CAPSULE)
    ELSE NULL

\* cudaFont::RenderOverlay draws into the output image
RenderOverlayWrites(input_img, output_img, renderOk) ==
    IF renderOk THEN {output_img} ELSE {}

\* the record of a call of the font type
FontCall(op, ret, err) == [op |-> op, ret |-> ret, err |-> err]

\* PyFont_New.  allocOk: tp_alloc returned an object; colorsOk: every
\* Py_BuildValue of the color tuples succeeded.  A failed INIT_COLOR drops the
\* only reference, which deallocates the object (tp_alloc zero-fills it, so
\* its font is NULL).
PyFont_New(allocOk, colorsOk) ==
    /\ selfObj = "none"
    /\ IF ~allocOk
       THEN /\ last' = FontCall("PyFont_New", "NULL", ErrFontAlloc)
            /\ UNCHANGED <<selfObj, font>>
       ELSE IF ~colorsOk
       THEN /\ last' = FontCall("PyFont_New", "NULL", ErrFontColor)
            /\ UNCHANGED <<selfObj, font>>
       ELSE /\ selfObj' = "live"
            /\ font' = NULL
            /\ last' = FontCall("PyFont_New", "self", ErrNone)
    /\ UNCHANGED <<atlases, nCreated>>
    /\ UNCHANGED registryVars

\* cudaFont::Create returns NULL when the bitmap cannot be loaded or memory
\* for it cannot be allocated
CreateOutcomes == IF nCreated < MaxAtlas THEN BOOLEAN ELSE {FALSE}

\* PyFont_Init.  parseOk: PyArg_ParseTupleAndKeywords succeeded.
PyFont_Init(parseOk) ==
    /\ selfObj = "live"
    /\ IF ~parseOk
       THEN /\ last' = FontCall("PyFont_Init", "-1", ErrFontInitParse)
            /\ UNCHANGED <<font, atlases, nCreated>>
       ELSE \E createOk \in CreateOutcomes :
              IF ~createOk
              THEN /\ last' = FontCall("PyFont_Init", "-1", ErrFontCreate)
                   /\ UNCHANGED <<font, atlases, nCreated>>
              ELSE /\ nCreated' = nCreated + 1
                   /\ atlases' = atlases \cup {nCreated + 1}
                   /\ font' = nCreated + 1
                   /\ last' = FontCall("PyFont_Init", "0", ErrNone)
    /\ UNCHANGED selfObj
    /\ UNCHANGED registryVars

\* PyFont_Dealloc
PyFont_Dealloc ==
    /\ selfObj = "live"
    /\ atlases' = IF font # NULL THEN atlases \ {font} ELSE atlases
    /\ font' = NULL
    /\ selfObj' = "freed"
    /\ last' = FontCall("PyFont_Dealloc", "void", ErrNone)
    /\ UNCHANGED nCreated
    /\ UNCHANGED registryVars

\* mutant: only images with both dimensions invalid are rejected
DimsInvalid_Both(width, height) == width <= 0 /\ height <= 0

\* if( width <= 0 || height <= 0 )
DimsInvalid(width, height) == width <= 0 \/ height <= 0

\* mutant: an output that is not given is not replaced by the input
OutputOrInput_NoDefault(a) == a.output

\* if( !output ) output = input;
OutputOrInput(a) == IF a.output = NotGiven THEN a.input ELSE a.output

\* mutant: Overlay does not look at self->font
InstanceInvalid_Unchecked(f) == FALSE

\* if( !self || !self->font )
InstanceInvalid(f) == f = NULL

\* the checks of PyFont_Overlay in the order of the code: the error of the
\* first one that fails, ErrNone when the call reaches RenderOverlay
OverlayChecks(f, a) ==
    IF InstanceInvalid(f) THEN ErrOverlayInstance
    ELSE IF ~a.parsed THEN ErrOverlayParse
    ELSE IF a.color # "none" /\ ~PyTuple_Check(a.color) THEN ErrOverlayColorTuple
    ELSE IF a.color # "none" /\ ~ColorParses(a.color) THEN ErrOverlayColorParse
    ELSE IF DimsInvalid(a.width, a.height) THEN ErrOverlayDims
    ELSE IF PyCUDA_GetPointer(a.input) = NULL THEN ErrOverlayInput
    ELSE IF PyCUDA_GetPointer(OutputOrInput(a)) = NULL THEN ErrOverlayOutput
    ELSE ErrNone

\* mutant: the result of RenderOverlay decides what the call returns
OverlayReturn_Checked(renderOk) == IF renderOk THEN "None" ELSE "NULL"

\* self->font->RenderOverlay(...); Py_RETURN_NONE: the bool RenderOverlay
\* returns is not looked at
OverlayReturn(renderOk) == "None"

\* mutant: a failed call drops the font
FontAfterOverlay_Reset(f, ret) == IF ret = "NULL" THEN NULL ELSE f

\* self->font after a call of Overlay: the function never assigns it
FontAfterOverlay(f, ret) == f

\* the record of an Overlay call: self->font at the call, the arguments, and
\* what happened: whether RenderOverlay was called, with which images, what it
\* returned, which images it wrote, and what the call returned
OverlayCall(f, a, rendered, src, dst, renderOk, ret, err) ==
    [op |-> "PyFont_Overlay", font |-> f, args |-> a, rendered |-> rendered,
     src |-> src, dst |-> dst, renderOk |-> renderOk,
     wrote |-> IF rendered THEN RenderOverlayWrites(src, dst, renderOk) ELSE {},
     ret |-> ret, err |-> err]

\* PyFont_Overlay
PyFont_Overlay(a) ==
    /\ selfObj = "live"
    /\ LET err == OverlayChecks(font, a)
       IN IF err # ErrNone
          THEN /\ last' = OverlayCall(font, a, FALSE, NULL, NULL, FALSE, "NULL", err)
               /\ font' = FontAfterOverlay(font, "NULL")
          ELSE \E renderOk \in BOOLEAN :
                 LET ret == OverlayReturn(renderOk)
                 IN /\ last' = OverlayCall(font, a, TRUE, PyCUDA_GetPointer(a.input),
                                           PyCUDA_GetPointer(OutputOrInput(a)), renderOk,
                                           ret, ErrNone)
                    /\ font' = FontAfterOverlay(font, ret)
    /\ UNCHANGED <<selfObj, atlases, nCreated>>
    /\ UNCHANGED registryVars

\* the arguments of an Overlay call: those PyArg_ParseTupleAndKeywords accepts,
\* and one it rejects (the locals then keep their initial values)
OverlayArgs ==
    [parsed : {TRUE}, input : 0..Len(handles), output : NotGiven..Len(handles),
     width : Dims, height : Dims, req : Requests, color : Colors]
    \cup
    {[parsed |-> FALSE, input |-> NotCapsule, output |-> NotGiven, width |-> 0,
      height |-> 0, req |-> [text |-> "", pen |-> <<0, 0>>], color |-> "none"]}

\* the font type is exercised with two image buffers registered: a device
\* pointer wrapped without ownership and a mapped allocation
FontInitHandles ==
    << [ptr |-> 1, gpu |-> 1, name |-> CUDA_MALLOC_MEMORY_CAPSULE,
        destructor |-> MallocDestructor(FALSE), owns |-> FALSE],
       [ptr |-> 2, gpu |-> 2, name |-> CUDA_MAPPED_MEMORY_CAPSULE,
        destructor |-> MappedDestructor(DefaultFreeOnDelete), owns |-> DefaultFreeOnDelete] >>

FontInit ==
    /\ handles = FontInitHandles
    /\ relCount = <<0, 0>>
    /\ freeCount = <<0, 0>>
    /\ devMem = {}
    /\ hostMem = {2}
    /\ last = NoCall
    /\ selfObj = "none"
    /\ font = NULL
    /\ atlases = {}
    /\ nCreated = 0

FontNext ==
    \/ \E allocOk \in BOOLEAN, colorsOk \in BOOLEAN : PyFont_New(allocOk, colorsOk)
    \/ \E parseOk \in BOOLEAN : PyFont_Init(parseOk)
    \/ PyFont_Dealloc
    \/ \E a \in OverlayArgs : PyFont_Overlay(a)

FontSpec == FontInit /\ [][FontNext]_vars

\* ================================================================= claims
AllocOps == {"PyCUDA_Malloc", "PyCUDA_AllocMapped"}
WrapOps == {"PyCUDA_RegisterMemory", "PyCUDA_RegisterMappedMemory"}
HandleIds == 1..Len(handles)

\* the last call was op with an integer size > 0, so it reached the primitive
AllocCall(op) == last.op = op /\ last.parsed /\ last.size > 0

\* C1: once cudaMalloc(size > 0) has returned, the allocation the primitive
\* made for it has been passed to cudaFree by the call itself, or it is held by
\* the owning capsule the call returned, whose release passes it to cudaFree:
\* none is left that no release can reach.  (Violated: the cudaSuccess path
\* returns NULL and drops the pointer.)
C1_MallocRoundTripLeakFree ==
    /\ (AllocCall("PyCUDA_Malloc") /\ last.alloc # NULL) =>
          IF last.ret = 0
          THEN <<"cudaFree", last.alloc>> \in last.freed
          ELSE /\ handles[last.ret].ptr = last.alloc
               /\ handles[last.ret].destructor = FreeMallocDtor
    /\ \A h \in HandleIds :
          (handles[h].destructor = FreeMallocDtor /\ relCount[h] > 0) => freeCount[h] > 0

\* C2: cudaMalloc(size > 0) returns an owning device capsule exactly when the
\* primitive succeeds, and NULL with the error "cudaMalloc() failed" exactly
\* when the primitive fails.  (Violated: the test of the primitive's result is
\* inverted.)
C2_MallocHandleIffPrimitiveOk ==
    AllocCall("PyCUDA_Malloc") =>
        /\ last.primOk <=>
              (/\ last.ret # 0
               /\ handles[last.ret].name = CUDA_MALLOC_MEMORY_CAPSULE
               /\ handles[last.ret].owns
               /\ handles[last.ret].destructor = FreeMallocDtor)
        /\ ~last.primOk <=> (last.ret = 0 /\ last.err = ErrMallocFailed)

\* C3: when cudaAllocMapped hands back two non-null pointers that differ,
\* cudaAllocMapped() of the binding returns NULL with an error and has passed
\* the allocation to cudaFreeHost; and no mapped capsule exists whose CPU
\* pointer differs from the GPU pointer it was registered with.
C3_MismatchFailsAndFrees ==
    /\ (/\ AllocCall("PyCUDA_AllocMapped") /\ last.primOk
        /\ last.cpu # NULL /\ last.gpu # NULL /\ last.cpu # last.gpu) =>
          /\ last.ret = 0
          /\ last.err # ErrNone
          /\ <<"cudaFreeHost", last.alloc>> \in last.freed
    /\ \A h \in HandleIds :
          handles[h].name = CUDA_MAPPED_MEMORY_CAPSULE => handles[h].ptr = handles[h].gpu

C3_Witness ==
    /\ AllocCall("PyCUDA_AllocMapped") /\ last.primOk
    /\ last.cpu # NULL /\ last.gpu # NULL /\ last.cpu # last.gpu
    /\ last.ret = 0
    /\ \E h \in HandleIds : handles[h].name = CUDA_MAPPED_MEMORY_CAPSULE

\* C4: however often an owning capsule is released, its destructor calls the
\* free primitive at most once.  (Violated: the destructors never clear the
\* capsule's pointer, so every release frees it again.)
C4_ReleaseFreesAtMostOnce ==
    \A h \in HandleIds : freeCount[h] <= 1

\* C5: a capsule registered with freeOnDelete = false never has a free
\* primitive called for it: not by its release, and not by the cleanup branches
\* of the registration.
C5_NonOwningNeverFrees ==
    /\ \A h \in HandleIds : ~handles[h].owns => freeCount[h] = 0
    /\ (last.op = "Release" /\ ~handles[last.h].owns) => last.prim = "none"
    /\ (last.op \in WrapOps /\ ~last.owns) => last.freed = {}

C5_Witness ==
    /\ last.op = "Release"
    /\ ~handles[last.h].owns
    /\ relCount[last.h] >= 1

\* the error an allocation call reports for a size <= 0
InvalidSizeError(op) == IF op = "PyCUDA_Malloc" THEN ErrMallocSize ELSE ErrMappedSize

\* C7: cudaMalloc / cudaAllocMapped with an integer size <= 0 return NULL with
\* the "requested size is negative or zero" error without calling the
\* allocation primitive, and a call whose primitive failed reports a different
\* error.
C7_InvalidSizeDistinctError ==
    /\ (last.op \in AllocOps /\ last.parsed /\ last.size <= 0) =>
          /\ last.ret = 0
          /\ ~last.called
          /\ last.alloc = NULL
          /\ last.err = InvalidSizeError(last.op)
    /\ (last.op \in AllocOps /\ last.called /\ ~last.primOk) =>
          /\ last.ret = 0
          /\ last.err \notin {ErrNone, ErrMallocSize, ErrMappedSize}

C7_Witness ==
    /\ last.op \in AllocOps /\ last.parsed /\ last.size <= 0
    /\ last.err = InvalidSizeError(last.op)

\* C8: when the free primitive fails in a capsule's release, no error is
\* propagated and the capsule's pointer is cleared, so that no later release
\* retries the free.  (Violated: the pointer is never cleared, see C4.)
C8_FailedFreeStillReleased ==
    (last.op = "Release" /\ last.prim # "none" /\ CUDA_FAILED(last.rc)) =>
        /\ last.err = ErrNone
        /\ PyCapsule_GetPointer(handles[last.h], handles[last.h].name) = NULL

\* the address of the image an Overlay argument stands for, as the binding
\* obtains it
BufferAddr(obj) == PyCUDA_GetPointer(obj)

\* the destination of an Overlay call: the output, the input when none is given
DestOf(a) == IF a.output = NotGiven THEN a.input ELSE a.output

\* the arguments of Overlay call c satisfy the preconditions of the render:
\* width > 0, height > 0, both image addresses non-null
ArgsPre(c) ==
    /\ c.args.width > 0
    /\ c.args.height > 0
    /\ BufferAddr(c.args.input) # NULL
    /\ BufferAddr(DestOf(c.args)) # NULL

\* the preconditions of the render: the instance is Ready, and ArgsPre
RenderPre(c) == c.font # NULL /\ ArgsPre(c)

\* the arguments parse: they have the expected types, and the color is not
\* given or a tuple of three or four numbers
WellFormed(c) == c.args.parsed /\ c.args.color \in {"none", "tuple3"}

\* C6: Overlay calls RenderOverlay only when the instance has a font, width > 0,
\* height > 0 and both image pointers are non-null; when one of these fails the
\* call returns NULL with an error and no image is written.
C6_RenderOnlyUnderPreconditions ==
    last.op = "PyFont_Overlay" =>
        /\ last.rendered => RenderPre(last)
        /\ ~RenderPre(last) =>
              /\ ~last.rendered
              /\ last.wrote = {}
              /\ last.ret = "NULL"
              /\ last.err # ErrNone

C6_Witness ==
    /\ last.op = "PyFont_Overlay"
    /\ last.font # NULL
    /\ last.args.width > 0 /\ last.args.height > 0
    /\ BufferAddr(last.args.input) # NULL
    /\ BufferAddr(DestOf(last.args)) = NULL
    /\ last.ret = "NULL"

\* C9 as stated: whenever the preconditions of the render hold, Overlay
\* returns success.  (Violated: a color argument that is not a tuple of three
\* or four numbers fails the call although the preconditions hold.)
C9_PreconditionsImplySuccess ==
    (last.op = "PyFont_Overlay" /\ RenderPre(last)) => last.ret = "None"

\* C9 as amended: whenever the preconditions of the render hold and the
\* arguments parse (the color not given or a tuple of three or four numbers),
\* Overlay calls RenderOverlay and returns None, for every text and pen origin
\* and whatever RenderOverlay returns.
C9_WellFormedCallSucceeds ==
    (last.op = "PyFont_Overlay" /\ RenderPre(last) /\ WellFormed(last)) =>
        /\ last.rendered
        /\ last.ret = "None"
        /\ last.err = ErrNone

C9_Witness ==
    /\ last.op = "PyFont_Overlay"
    /\ RenderPre(last) /\ WellFormed(last)
    /\ last.args.req.text = ""
    /\ ~last.renderOk
    /\ last.ret = "None"

\* C10: an Overlay call that fails leaves the instance as it was (same font,
\* same atlases, still live), and the Overlay call that follows a failed call
\* on an instance with a font renders and returns None when its arguments are
\* valid.
C10_FailedOverlayLeavesReady ==
    /\ [][(last'.op = "PyFont_Overlay" /\ last'.ret = "NULL") =>
            (font' = font /\ atlases' = atlases /\ selfObj' = selfObj)]_vars
    /\ [][(/\ last.op = "PyFont_Overlay" /\ last.ret = "NULL" /\ last.font # NULL
           /\ last'.op = "PyFont_Overlay" /\ ArgsPre(last') /\ WellFormed(last')) =>
            (last'.rendered /\ last'.ret = "None")]_vars

C10_Witness ==
    /\ last.op = "PyFont_Overlay"
    /\ last.ret = "NULL"
    /\ last.font # NULL
    /\ font = last.font
    /\ selfObj = "live"

\* an Overlay call that has everything the render needs short of the
\* destination: a font, arguments that parse, width > 0, height > 0 and an
\* input image with a non-null address
SourcePre(c) ==
    /\ c.font # NULL
    /\ WellFormed(c)
    /\ c.args.width > 0
    /\ c.args.height > 0
    /\ BufferAddr(c.args.input) # NULL

\* C11: an Overlay call with the output omitted renders with the input image
\* as destination (the image passed as input is the one written); a call with
\* an output image at another address than the input renders into the output
\* only, and the input image is not written.
C11_OutputDefaultsToInput ==
    last.op = "PyFont_Overlay" =>
        /\ (SourcePre(last) /\ last.args.output = NotGiven) =>
              /\ last.rendered
              /\ last.src = BufferAddr(last.args.input)
              /\ last.dst = last.src
              /\ last.wrote \subseteq {last.src}
              /\ last.renderOk => last.wrote = {last.src}
        /\ (/\ SourcePre(last) /\ last.args.output # NotGiven
            /\ BufferAddr(last.args.output) # NULL
            /\ BufferAddr(last.args.output) # BufferAddr(last.args.input)) =>
              /\ last.rendered
              /\ last.src = BufferAddr(last.args.input)
              /\ last.dst = BufferAddr(last.args.output)
              /\ last.wrote \subseteq {last.dst}
              /\ last.src \notin last.wrote

C11_Witness ==
    /\ last.op = "PyFont_Overlay"
    /\ SourcePre(last)
    /\ last.args.output = NotGiven
    /\ last.renderOk
    /\ last.wrote = {BufferAddr(last.args.input)}

\* C12: when cudaFont::Create cannot load the bitmap, __init__ returns -1 with
\* an error; as long as no Create has succeeded for the instance it has no
\* font, and every Overlay call on it returns NULL with the invalid-instance
\* error without RenderOverlay being called or an image being written.
C12_NoRenderWithoutCreate ==
    /\ (last.op = "PyFont_Init" /\ last.err = ErrFontCreate) => last.ret = "-1"
    /\ (last.op = "PyFont_Init" /\ last.ret = "0") => (nCreated > 0 /\ font \in atlases)
    /\ nCreated = 0 => font = NULL
    /\ (last.op = "PyFont_Overlay" /\ nCreated = 0) =>
          /\ ~last.rendered
          /\ last.wrote = {}
          /\ last.ret = "NULL"
          /\ last.err = ErrOverlayInstance

C12_Witness ==
    /\ last.op = "PyFont_Overlay"
    /\ nCreated = 0
    /\ selfObj = "live"
    /\ WellFormed(last) /\ ArgsPre(last)
    /\ last.ret = "NULL"

\* C13: whenever cudaAllocMapped(size > 0) of the binding returns NULL, the
\* allocation its primitive made (if it made one) has been passed to
\* cudaFreeHost by the call.  (Violated: when the primitive reports success
\* with a null CPU or GPU pointer, PyCUDA_RegisterMappedMemory returns NULL
\* from its first check, which - unlike its other two failure branches - frees
\* nothing.)
C13_FailedAllocMappedFreed ==
    (AllocCall("PyCUDA_AllocMapped") /\ last.ret = 0 /\ last.alloc # NULL) =>
        <<"cudaFreeHost", last.alloc>> \in last.freed

\* C14: every cudaFont created for the instance and not yet deleted is the one
\* self->font refers to, and none is left once the instance is deallocated.
\* (Violated: PyFont_Init assigns self->font without deleting the cudaFont a
\* previous __init__ stored there.)
C14_AtlasDestroyedWhenDropped ==
    /\ \A a \in atlases : a = font
    /\ selfObj = "freed" => atlases = {}

\* the free primitive of an ownership mode: cudaFree for capsules of device
\* memory, cudaFreeHost for capsules of mapped memory
ModePrimitive(name) ==
    IF name = CUDA_MALLOC_MEMORY_CAPSULE THEN "cudaFree" ELSE "cudaFreeHost"

\* the ownership mode of the capsule an allocation or registration call makes
ModeOf(op) ==
    IF op \in {"PyCUDA_Malloc", "PyCUDA_RegisterMemory"}
    THEN CUDA_MALLOC_MEMORY_CAPSULE ELSE CUDA_MAPPED_MEMORY_CAPSULE

\* C15: every free a capsule's release makes and every free a cleanup branch
\* of a registration makes uses the primitive of the capsule's mode (cudaFree
\* for device memory, cudaFreeHost for mapped memory), is made only when
\* freeOnDelete is true, and is made on a non-null address.
C15_FreeMatchesOwnership ==
    /\ (last.op = "Release" /\ last.prim # "none") =>
          /\ handles[last.h].owns
          /\ last.ptr # NULL
          /\ last.ptr = handles[last.h].ptr
          /\ last.prim = ModePrimitive(handles[last.h].name)
    /\ (last.op \in AllocOps \cup WrapOps) =>
          \A f \in last.freed :
              /\ last.owns
              /\ f[2] # NULL
              /\ f[1] = ModePrimitive(ModeOf(last.op))
    /\ \A h \in HandleIds : freeCount[h] > 0 => handles[h].owns

C15_Witness ==
    /\ last.op = "Release"
    /\ last.prim = "cudaFreeHost"
    /\ handles[last.h].name = CUDA_MAPPED_MEMORY_CAPSULE
    /\ handles[last.h].owns
    /\ \E h \in HandleIds : handles[h].name = CUDA_MALLOC_MEMORY_CAPSULE /\ freeCount[h] > 0

\* a capsule that has not been released
Live(h) == relCount[h] = 0

\* C16: no two live capsules registered with freeOnDelete = true hold the same
\* address.  (Violated: the registration functions accept an address that an
\* owning capsule already holds, and each capsule's release frees it.)
C16_OneOwnerPerAddress ==
    \A h1 \in HandleIds, h2 \in HandleIds :
        (/\ h1 # h2
         /\ Live(h1) /\ Live(h2)
         /\ handles[h1].owns /\ handles[h2].owns) => handles[h1].ptr # handles[h2].ptr

====
